---- MODULE Spec2Model ----
(***************************************************************************)
(* Model of app.py: a Flask process holding one module-level pymysql       *)
(* connection `db`, with the routes `/` (home) and `/employees`            *)
(* (employees).  The relational store, its sessions and the HTTP clients   *)
(* are the environment.                                                    *)
(*                                                                         *)
(* `table` is the employees table as the sequence of rows in the order the *)
(* store returns them for SELECT * FROM employees; every row has `ncols`   *)
(* columns.  `sessions` is the set of connections alive at the store.      *)
(***************************************************************************)
EXTENDS Integers, Sequences, FiniteSets, TLC

VARIABLES
    proc,       \* "starting" | "serving" | "crashed": the Python process
    db,         \* the module-level connection handle (0: never bound)
    opened,     \* how many connections the process has opened so far
    storeUp,    \* the store is reachable
    sessions,   \* connection handles whose session is alive at the store
    ncols,      \* number of columns of the employees table
    table,      \* rows of the employees table, in store-returned order
    pending,    \* the request waiting for its handler: "none" or a path
    respHome,   \* response to the latest GET /
    respEmp,    \* response to the latest GET /employees
    rows,       \* employees(): the local `rows` of the latest call
    exc,        \* employees(): the exception caught by the latest call
    queries,    \* employees(): statements passed to cursor.execute by the latest call
    wrote,      \* the table was written since the latest GET /employees
    afterFail,  \* "no" | "failed" | "answered": requests answered since a failed call
    upAtCall,   \* the store was reachable when the latest GET /employees ran
    repeatCall, \* the latest GET /employees repeated an earlier one with no write between
    tpc,        \* threaded server: position of each request thread
    tsnap,      \* threaded server: the table when the thread's query ran
    trows,      \* threaded server: rows the thread's cursor has read so far
    tresp,      \* threaded server: the thread's response
    wire        \* threaded server: packets queued on the shared connection

callVars == <<rows, exc, queries, upAtCall, repeatCall>>
seqVars  == <<pending, respHome, respEmp, wrote, afterFail, callVars>>
procVars == <<proc, db, opened>>
storeVars == <<storeUp, sessions, ncols, table>>
concVars == <<tpc, tsnap, trows, tresp, wire>>
vars == <<proc, db, opened, storeUp, sessions, ncols, table, pending, respHome,
          respEmp, rows, exc, queries, wrote, afterFail, upAtCall, repeatCall,
          tpc, tsnap, trows, tresp, wire>>

-----------------------------------------------------------------------------
(* Bounds and the universe of table rows *)

MaxRows == 2

Widths == 1 .. 3

\* The employee records the environment may store; a row of a table with
\* n columns is the first n columns of <<id, name, dept>>.
People == { <<1, "Alice", "Eng">>, <<2, "Bob", "Ops">> }

RowsOfWidth(n) == { SubSeq(p, 1, n) : p \in People }

Threads == {1, 2}

-----------------------------------------------------------------------------
(* Responses *)

NoResp  == [status |-> 0, ctype |-> "none", json |-> <<>>, text |-> ""]

\* The client's view of a request sent to a process that is not listening.
Refused == [status |-> 0, ctype |-> "refused", json |-> <<>>, text |-> ""]

Greeting ==
    [status |-> 200, ctype |-> "text/html", json |-> <<>>,
     text |-> "<h2>Hello from Flask App on EC2 via ALB!</h2>"]

Statement == "SELECT * FROM employees;"

\* str(e) of the errors pymysql raises on a dead connection.
ConnErrors == { "(2013, 'Lost connection to MySQL server during query')",
                "(0, '')" }

IndexErrorText == "tuple index out of range"

NoExc == [raised |-> FALSE, at |-> "none", msg |-> ""]

\* return jsonify(data)
jsonify(data) ==
    [status |-> 200, ctype |-> "application/json", json |-> data, text |-> ""]

\* Faulty variant: the except branch answers with a 500 (return str(e), 500).
ExceptHandlerStatus500(msg) ==
    [status |-> 500, ctype |-> "text/html", json |-> <<>>, text |-> msg]

\* except Exception as e: return str(e)
ExceptHandler(msg) ==
    [status |-> 200, ctype |-> "text/html", json |-> <<>>, text |-> msg]

\* [{"id": r[0], "name": r[1]} for r in rows], left to right; r[1] of a row
\* with fewer than two columns raises IndexError and abandons the list.
RECURSIVE ComprehensionFrom(_, _, _)
ComprehensionFrom(rs, i, acc) ==
    IF i > Len(rs) THEN [raised |-> FALSE, msg |-> "", data |-> acc]
    ELSE IF Len(rs[i]) < 2
         THEN [raised |-> TRUE, msg |-> IndexErrorText, data |-> <<>>]
         ELSE ComprehensionFrom(rs, i + 1,
                  Append(acc, [id |-> rs[i][1], name |-> rs[i][2]]))

\* Faulty variant: the list starts at the second row (for r in rows[1:]).
ComprehensionSkipsFirst(rs) == ComprehensionFrom(rs, 2, <<>>)

\* Faulty variant: rows with fewer than two columns are skipped instead of raising
\* (for r in rows if len(r) > 1).
ComprehensionSkipsShort(rs) ==
    ComprehensionFrom(SelectSeq(rs, LAMBDA r : Len(r) >= 2), 1, <<>>)

Comprehension(rs) == ComprehensionFrom(rs, 1, <<>>)

\* cursor = db.cursor(); cursor.execute(...); rows = cursor.fetchall()
\* on the shared handle: the table's rows when the session is alive, a
\* connection error (with one of the library's messages) when it is not.
ExecuteFetch ==
    IF db \in sessions
    THEN { [raised |-> FALSE, msg |-> "", rows |-> table] }
    ELSE { [raised |-> TRUE, msg |-> m, rows |-> <<>>] : m \in ConnErrors }

\* The exception, if any, the try block ends with.
Caught(out) ==
    IF out.raised THEN [raised |-> TRUE, at |-> "execute", msg |-> out.msg]
    ELSE LET c == Comprehension(out.rows) IN
         IF c.raised THEN [raised |-> TRUE, at |-> "comprehension", msg |-> c.msg]
         ELSE NoExc

\* Faulty variant: an empty result is answered with a message instead of []
\* (if not rows: return "No employees found").
EmployeesBodyEmptyIsMessage(out) ==
    IF Caught(out).raised THEN ExceptHandler(Caught(out).msg)
    ELSE IF out.rows = <<>> THEN ExceptHandler("No employees found")
    ELSE jsonify(Comprehension(out.rows).data)

\* The try/except of employees() given the outcome of the query.
EmployeesBody(out) ==
    IF Caught(out).raised THEN ExceptHandler(Caught(out).msg)
    ELSE jsonify(Comprehension(out.rows).data)

-----------------------------------------------------------------------------
(* Initial state: the process is about to import the module. *)

Init ==
    /\ proc = "starting"
    /\ db = 0
    /\ opened = 0
    /\ storeUp \in BOOLEAN
    /\ sessions = {}
    /\ ncols \in Widths
    /\ table = <<>>
    /\ pending = "none"
    /\ respHome = NoResp
    /\ respEmp = NoResp
    /\ rows = <<>>
    /\ exc = NoExc
    /\ queries = <<>>
    /\ wrote = FALSE
    /\ afterFail = "no"
    /\ upAtCall = FALSE
    /\ repeatCall = FALSE
    /\ tpc = [t \in Threads |-> "idle"]
    /\ tsnap = [t \in Threads |-> <<>>]
    /\ trows = [t \in Threads |-> <<>>]
    /\ tresp = [t \in Threads |-> NoResp]
    /\ wire = <<>>

-----------------------------------------------------------------------------
(* The process *)

\* db = pymysql.connect(...) at import, then app.run(): an unreachable store
\* makes connect raise, the import fails and nothing is ever served.
Startup ==
    /\ proc = "starting"
    /\ IF storeUp
       THEN /\ db' = opened + 1
            /\ opened' = opened + 1
            /\ sessions' = sessions \cup {opened + 1}
            /\ proc' = "serving"
       ELSE /\ proc' = "crashed"
            /\ UNCHANGED <<db, opened, sessions>>
    /\ UNCHANGED <<storeUp, ncols, table>>
    /\ UNCHANGED seqVars
    /\ UNCHANGED concVars

NextAfterFail == IF afterFail = "no" THEN "no" ELSE "answered"

\* @app.route('/')
home ==
    /\ proc = "serving"
    /\ pending = "/"
    /\ respHome' = Greeting
    /\ pending' = "none"
    /\ afterFail' = NextAfterFail
    /\ UNCHANGED <<respEmp, wrote, callVars>>
    /\ UNCHANGED procVars
    /\ UNCHANGED storeVars
    /\ UNCHANGED concVars

\* Faulty variant: `data` is a module-level list that every call appends to.
employeesAccumulates ==
    /\ proc = "serving"
    /\ pending = "/employees"
    /\ \E out \in ExecuteFetch :
         /\ rows' = out.rows
         /\ exc' = Caught(out)
         /\ respEmp' = IF Caught(out).raised THEN EmployeesBody(out)
                       ELSE jsonify(respEmp.json \o Comprehension(out.rows).data)
         /\ afterFail' = IF Caught(out).raised THEN "failed" ELSE NextAfterFail
    /\ queries' = <<Statement>>
    /\ upAtCall' = storeUp
    /\ repeatCall' = (respEmp # NoResp /\ ~wrote /\ exc.at # "execute")
    /\ pending' = "none"
    /\ wrote' = FALSE
    /\ UNCHANGED respHome
    /\ UNCHANGED procVars
    /\ UNCHANGED storeVars
    /\ UNCHANGED concVars

\* Faulty variant: a failed query is executed a second time before giving up.
employeesRetries ==
    /\ proc = "serving"
    /\ pending = "/employees"
    /\ \E out \in ExecuteFetch :
         /\ rows' = out.rows
         /\ exc' = Caught(out)
         /\ respEmp' = EmployeesBody(out)
         /\ afterFail' = IF Caught(out).raised THEN "failed" ELSE NextAfterFail
         /\ queries' = IF out.raised THEN <<Statement, Statement>> ELSE <<Statement>>
    /\ upAtCall' = storeUp
    /\ repeatCall' = (respEmp # NoResp /\ ~wrote /\ exc.at # "execute")
    /\ pending' = "none"
    /\ wrote' = FALSE
    /\ UNCHANGED respHome
    /\ UNCHANGED procVars
    /\ UNCHANGED storeVars
    /\ UNCHANGED concVars

\* Faulty variant: the exception of a failed query is not caught and takes the
\* serving process down.
employeesCrashesOnError ==
    /\ pending = "/employees"
    /\ proc = "serving"
    /\ \E out \in ExecuteFetch :
         /\ rows' = out.rows
         /\ exc' = Caught(out)
         /\ respEmp' = IF out.raised THEN Refused ELSE EmployeesBody(out)
         /\ proc' = IF out.raised THEN "crashed" ELSE proc
         /\ afterFail' = IF Caught(out).raised THEN "failed" ELSE NextAfterFail
    /\ queries' = <<Statement>>
    /\ upAtCall' = storeUp
    /\ repeatCall' = (respEmp # NoResp /\ ~wrote /\ exc.at # "execute")
    /\ pending' = "none"
    /\ wrote' = FALSE
    /\ UNCHANGED <<respHome, db, opened>>
    /\ UNCHANGED storeVars
    /\ UNCHANGED concVars

\* Faulty variant: a handler that finds the session dead reconnects when the store
\* is reachable (db.ping(reconnect=True)) and queries the new connection.
employeesReconnects ==
    /\ proc = "serving"
    /\ pending = "/employees"
    /\ IF db \notin sessions /\ storeUp
       THEN /\ db' = opened + 1
            /\ opened' = opened + 1
            /\ sessions' = sessions \cup {opened + 1}
            /\ rows' = table
            /\ exc' = Caught([raised |-> FALSE, msg |-> "", rows |-> table])
            /\ respEmp' = EmployeesBody([raised |-> FALSE, msg |-> "", rows |-> table])
            /\ afterFail' = NextAfterFail
       ELSE /\ \E out \in ExecuteFetch :
                 /\ rows' = out.rows
                 /\ exc' = Caught(out)
                 /\ respEmp' = EmployeesBody(out)
                 /\ afterFail' = IF Caught(out).raised THEN "failed" ELSE NextAfterFail
            /\ UNCHANGED <<db, opened, sessions>>
    /\ queries' = <<Statement>>
    /\ upAtCall' = storeUp
    /\ repeatCall' = (respEmp # NoResp /\ ~wrote /\ exc.at # "execute")
    /\ pending' = "none"
    /\ wrote' = FALSE
    /\ UNCHANGED <<respHome, proc, storeUp, ncols, table>>
    /\ UNCHANGED concVars

\* @app.route('/employees')
employees ==
    /\ proc = "serving"
    /\ pending = "/employees"
    /\ \E out \in ExecuteFetch :
         /\ rows' = out.rows
         /\ exc' = Caught(out)
         /\ respEmp' = EmployeesBody(out)
         /\ afterFail' = IF Caught(out).raised THEN "failed" ELSE NextAfterFail
    /\ queries' = <<Statement>>
    /\ upAtCall' = storeUp
    /\ repeatCall' = (respEmp # NoResp /\ ~wrote /\ exc.at # "execute")
    /\ pending' = "none"
    /\ wrote' = FALSE
    /\ UNCHANGED respHome
    /\ UNCHANGED procVars
    /\ UNCHANGED storeVars
    /\ UNCHANGED concVars

-----------------------------------------------------------------------------
(* The environment: clients and the store *)

Arrive(path) ==
    /\ pending = "none"
    /\ proc # "starting"
    /\ pending' = path
    /\ UNCHANGED <<respHome, respEmp, wrote, afterFail, callVars>>
    /\ UNCHANGED procVars
    /\ UNCHANGED storeVars
    /\ UNCHANGED concVars

\* Nothing listens on the port of a process whose import failed.
Refuse ==
    /\ proc = "crashed"
    /\ pending # "none"
    /\ IF pending = "/"
       THEN respHome' = Refused /\ UNCHANGED respEmp
       ELSE respEmp' = Refused /\ UNCHANGED respHome
    /\ pending' = "none"
    /\ UNCHANGED <<wrote, afterFail, callVars>>
    /\ UNCHANGED procVars
    /\ UNCHANGED storeVars
    /\ UNCHANGED concVars

StoreFails ==
    /\ storeUp
    /\ storeUp' = FALSE
    /\ sessions' = {}
    /\ UNCHANGED <<ncols, table>>
    /\ UNCHANGED procVars
    /\ UNCHANGED seqVars
    /\ UNCHANGED concVars

StoreRecovers ==
    /\ ~storeUp
    /\ storeUp' = TRUE
    /\ UNCHANGED <<sessions, ncols, table>>
    /\ UNCHANGED procVars
    /\ UNCHANGED seqVars
    /\ UNCHANGED concVars

\* The store closes the session (idle timeout, kill) while staying up.
SessionDropped ==
    /\ db \in sessions
    /\ sessions' = sessions \ {db}
    /\ UNCHANGED <<storeUp, ncols, table>>
    /\ UNCHANGED procVars
    /\ UNCHANGED seqVars
    /\ UNCHANGED concVars

\* Another client of the store inserts a row.
InsertRow(r) ==
    /\ storeUp
    /\ Len(table) < MaxRows
    /\ table' = Append(table, r)
    /\ wrote' = TRUE
    /\ UNCHANGED <<storeUp, sessions, ncols>>
    /\ UNCHANGED <<pending, respHome, respEmp, afterFail, callVars>>
    /\ UNCHANGED procVars
    /\ UNCHANGED concVars

\* Another client of the store deletes the i-th row.
DeleteRow(i) ==
    /\ storeUp
    /\ table' = SubSeq(table, 1, i - 1) \o SubSeq(table, i + 1, Len(table))
    /\ wrote' = TRUE
    /\ UNCHANGED <<storeUp, sessions, ncols>>
    /\ UNCHANGED <<pending, respHome, respEmp, afterFail, callVars>>
    /\ UNCHANGED procVars
    /\ UNCHANGED concVars

Next ==
    \/ Startup
    \/ home
    \/ employees
    \/ \E p \in {"/", "/employees"} : Arrive(p)
    \/ Refuse
    \/ StoreFails
    \/ StoreRecovers
    \/ SessionDropped
    \/ \E r \in RowsOfWidth(ncols) : InsertRow(r)
    \/ \E i \in 1 .. Len(table) : DeleteRow(i)

Spec == Init /\ [][Next]_vars

\* The HTTP server dispatches every request it has accepted.
FairSpec == Spec /\ WF_vars(home) /\ WF_vars(employees)

-----------------------------------------------------------------------------
(* Properties of the sequential server (Spec, FairSpec) *)

\* A step in which the /employees handler answers the pending request.
EmployeesCall == proc = "serving" /\ pending = "/employees" /\ pending' = "none"

\* A step in which the request for `path` is answered or refused.
Answered(path) == pending = path /\ pending' = "none"

EmptyArray ==
    [status |-> 200, ctype |-> "application/json", json |-> <<>>, text |-> ""]

IsJsonArray(r) == r.status = 200 /\ r.ctype = "application/json" /\ r.text = ""

IsErrorString(r) == r.status = 200 /\ r.ctype = "text/html" /\ r.json = <<>>

\* C1: with a working connection and a table of at least two columns,
\* GET /employees answers 200 with a JSON array that has one element per
\* row of the table, the i-th with id = first column and name = second
\* column of the i-th row, in the store's order.
C1_RowsToJson ==
    [][ (EmployeesCall /\ db \in sessions /\ ncols >= 2) =>
            /\ IsJsonArray(respEmp')
            /\ Len(respEmp'.json) = Len(table)
            /\ \A i \in 1 .. Len(table) :
                 /\ respEmp'.json[i].id = table[i][1]
                 /\ respEmp'.json[i].name = table[i][2] ]_vars

\* The scenario rows (1, "Alice"), (2, "Bob") answered in full.
C1_Witness ==
    /\ table = << <<1, "Alice">>, <<2, "Bob">> >>
    /\ rows = table
    /\ ~wrote
    /\ respEmp = [status |-> 200, ctype |-> "application/json", text |-> "",
                  json |-> << [id |-> 1, name |-> "Alice"], [id |-> 2, name |-> "Bob"] >>]

\* C2: when the connection is unavailable at a GET /employees, the handler
\* answers 200 with the exception's message as a plain string (no JSON
\* array), and the process keeps serving: nothing propagates.
C2_ConnectionErrorIsString ==
    [][ (EmployeesCall /\ db \notin sessions) =>
            /\ IsErrorString(respEmp')
            /\ exc'.raised /\ exc'.at = "execute"
            /\ respEmp'.text = exc'.msg
            /\ respEmp'.text \in ConnErrors
            /\ proc' = "serving" ]_vars

C2_Witness ==
    /\ proc = "serving"
    /\ db \notin sessions
    /\ pending = "none"
    /\ exc.at = "execute"
    /\ respEmp = [status |-> 200, ctype |-> "text/html", json |-> <<>>,
                  text |-> "(2013, 'Lost connection to MySQL server during query')"]

\* C3: every GET / is answered with the fixed greeting and status 200,
\* whatever the store's state, also when the store was unreachable at
\* process start.
C3_RootAlwaysGreets == respHome \in {NoResp, Greeting}

\* C4: with a working connection and an empty table, GET /employees
\* answers the empty JSON array, which is no error string.
C4_EmptyTableIsEmptyArray ==
    [][ (EmployeesCall /\ db \in sessions /\ table = <<>>) =>
            /\ respEmp' = EmptyArray
            /\ ~IsErrorString(respEmp') ]_vars

C4_Witness ==
    /\ table = <<>>
    /\ ~wrote
    /\ db \in sessions
    /\ queries = <<Statement>>
    /\ exc = NoExc
    /\ respEmp = EmptyArray

C7_KeepsServing ==
    /\ [][proc = "serving" => proc' = "serving"]_vars
    /\ [](proc = "serving" =>
            /\ respHome \in {NoResp, Greeting}
            /\ respEmp = NoResp \/ IsJsonArray(respEmp) \/ IsErrorString(respEmp))
    /\ (proc = "serving" /\ pending # "none") ~> (proc = "serving" /\ pending = "none")

\* A request answered after an /employees request failed.
C7_Witness ==
    /\ afterFail = "answered"
    /\ proc = "serving"
    /\ pending = "none"
    /\ respHome = Greeting
    /\ IsErrorString(respEmp)

\* C8: the process opens one connection, at start, and no handler ever
\* rebinds or re-establishes it; so once its session is lost it stays lost
\* and every later GET /employees answers an error string, also while the
\* store is reachable again.
C8_NoReconnect ==
    /\ [](proc = "serving" => opened = 1 /\ db = 1)
    /\ [][proc = "serving" => (db' = db /\ opened' = opened)]_vars
    /\ [][(proc = "serving" /\ db \notin sessions) => db' \notin sessions']_vars
    /\ [][(EmployeesCall /\ db \notin sessions) =>
             (IsErrorString(respEmp') /\ exc'.at = "execute")]_vars

\* A failed call made while the store was reachable.
C8_Witness ==
    /\ proc = "serving"
    /\ upAtCall
    /\ storeUp
    /\ db \notin sessions
    /\ exc.at = "execute"
    /\ IsErrorString(respEmp)

\* C9: the answer to GET /employees is either a JSON array with exactly
\* {id, name} = first and second column for every returned row, or an
\* error string with status 200 and no array at all; a returned row with
\* fewer than two columns makes it the error string.
C9_AllOrNothing ==
    \/ respEmp \in {NoResp, Refused}
    \/ /\ IsJsonArray(respEmp)
       /\ exc = NoExc
       /\ Len(respEmp.json) = Len(rows)
       /\ \A i \in 1 .. Len(rows) :
            /\ Len(rows[i]) >= 2
            /\ respEmp.json[i] = [id |-> rows[i][1], name |-> rows[i][2]]
    \/ /\ IsErrorString(respEmp)
       /\ exc.raised
       /\ respEmp.text = exc.msg
       /\ (exc.at = "comprehension") <=> (\E i \in 1 .. Len(rows) : Len(rows[i]) < 2)

\* Two one-column rows answered with the IndexError's message.
C9_Witness ==
    /\ Len(rows) = 2
    /\ Len(rows[1]) = 1
    /\ respEmp = [status |-> 200, ctype |-> "text/html", json |-> <<>>,
                  text |-> "tuple index out of range"]

-----------------------------------------------------------------------------
(* The threaded server (app.run serves each request in its own thread):     *)
(* request threads run employees() concurrently on the one handle `db`.    *)
(* pymysql does not lock a connection: cursor.execute writes the query to  *)
(* the shared socket and then reads result packets from it until the end   *)
(* marker, so two threads inside execute take packets from the same        *)
(* stream.  A thread that meets a packet of the other query either         *)
(* accepts it (the shared sequence counter happens to agree) or raises.    *)

PacketError == "(0, 'Packet sequence number wrong')"

RECURSIVE RowPackets(_, _, _)
RowPackets(rs, q, i) ==
    IF i > Len(rs) THEN <<>>
    ELSE <<[q |-> q, eof |-> FALSE, row |-> rs[i]]>> \o RowPackets(rs, q, i + 1)

\* What the store writes back for query q over a table rs.
ResultPackets(rs, q) ==
    RowPackets(rs, q, 1) \o <<[q |-> q, eof |-> TRUE, row |-> <<>>]>>

\* cursor = db.cursor(); cursor.execute(...): the query goes out.
TExecute(t) ==
    /\ proc = "serving"
    /\ tpc[t] = "idle"
    /\ IF db \in sessions
       THEN /\ wire' = wire \o ResultPackets(table, t)
            /\ tsnap' = [tsnap EXCEPT ![t] = table]
            /\ tpc' = [tpc EXCEPT ![t] = "reading"]
            /\ UNCHANGED tresp
       ELSE /\ \E m \in ConnErrors : tresp' = [tresp EXCEPT ![t] = ExceptHandler(m)]
            /\ tpc' = [tpc EXCEPT ![t] = "done"]
            /\ UNCHANGED <<wire, tsnap>>
    /\ UNCHANGED trows
    /\ UNCHANGED procVars
    /\ UNCHANGED storeVars
    /\ UNCHANGED seqVars

\* cursor.execute, continued: the next packet on the socket is taken.
TRead(t) ==
    /\ tpc[t] = "reading"
    /\ wire # <<>>
    /\ wire' = Tail(wire)
    /\ \/ /\ ~Head(wire).eof
          /\ trows' = [trows EXCEPT ![t] = Append(@, Head(wire).row)]
          /\ UNCHANGED <<tpc, tresp>>
       \/ /\ Head(wire).eof
          /\ tpc' = [tpc EXCEPT ![t] = "fetched"]
          /\ UNCHANGED <<trows, tresp>>
       \/ /\ Head(wire).q # t
          /\ tresp' = [tresp EXCEPT ![t] = ExceptHandler(PacketError)]
          /\ tpc' = [tpc EXCEPT ![t] = "done"]
          /\ UNCHANGED trows
    /\ UNCHANGED tsnap
    /\ UNCHANGED procVars
    /\ UNCHANGED storeVars
    /\ UNCHANGED seqVars

\* rows = cursor.fetchall(); data = [...]; return jsonify(data) / str(e)
TReturn(t) ==
    /\ tpc[t] = "fetched"
    /\ tresp' = [tresp EXCEPT ![t] =
                    EmployeesBody([raised |-> FALSE, msg |-> "", rows |-> trows[t]])]
    /\ tpc' = [tpc EXCEPT ![t] = "done"]
    /\ UNCHANGED <<tsnap, trows, wire>>
    /\ UNCHANGED procVars
    /\ UNCHANGED storeVars
    /\ UNCHANGED seqVars

NextConc ==
    \/ Startup
    \/ SessionDropped
    \/ \E r \in RowsOfWidth(ncols) : InsertRow(r)
    \/ \E i \in 1 .. Len(table) : DeleteRow(i)
    \/ \E t \in Threads : TExecute(t)
    \/ \E t \in Threads : TRead(t)
    \/ \E t \in Threads : TReturn(t)

ConcSpec == Init /\ [][NextConc]_vars

-----------------------------------------------------------------------------
\* C10: each of two overlapping /employees requests answers with the
\* complete result of its own query (or an error string), never with a
\* partial result or with rows of the other request's result.
C10_Independent ==
    \A t \in Threads :
        tpc[t] = "done" =>
            \/ tresp[t].ctype = "text/html"
            \/ tresp[t] = EmployeesBody([raised |-> FALSE, msg |-> "", rows |-> tsnap[t]])

====
